---------------------------- MODULE Spec2Model ----------------------------
(***************************************************************************)
(* Model of recover/recover_output64.py: rebuild_output and the Relocation *)
(* namespace (build_relocations, apply_all_fixups_to_rfn,                  *)
(* preserve_original_imports).                                             *)
(*                                                                         *)
(* Bytes are integers 0..255, encodings are sequences of bytes, the output *)
(* image is a byte array held sparsely (the bytes written so far, the      *)
(* zero-filled interval of SELECTIVE mode, and the template underneath).   *)
(* The assembler (keystone) and the decoder (capstone) are modelled on the *)
(* handful of x86-64 encodings the inputs use.  Python's None is NoneVal.  *)
(* input() is modelled as returning (the operator acknowledges the prompt).*)
(***************************************************************************)
EXTENDS Integers, Sequences, FiniteSets, TLC

VARIABLES
    pc,                         \* position in rebuild_output / build_relocations
    protection_type,            \* d.protection_type
    selective_func_rva,         \* d.selective_func_rva
    marker_at,                  \* where the template holds END_MARKER (0: nowhere)
    preserve_flag,              \* argument preserve_original_imports
    imports_to_preserve,        \* d.imports_to_preserve, in iteration order
    cfg,                        \* d.cfg, in iteration (insertion) order
    imports,                    \* d.imports
    import_to_rva_map,          \* d.import_to_rva_map
    newimgbuffer,               \* d.newimgbuffer
    global_relocs,              \* d.global_relocs
    curr_off,                   \* local curr_off of build_relocations
    starting_off,               \* argument starting_off of build_relocations
    d_func_rva,                 \* d.func_rva
    found,                      \* local found of rebuild_output
    emitIdx,                    \* next function of the emitter loop
    fixIdx,                     \* next function of the fixup loop
    faults,                     \* functions whose fixup raised (the printed exceptions)
    outcome,                    \* how rebuild_output ended: "", "normal", "raised"
    pass,                       \* which run of the fixup loop (SpecTwice)
    snap                        \* the buffer after the first run (SpecTwice)

vars == <<pc, protection_type, selective_func_rva, marker_at, preserve_flag,
          imports_to_preserve, cfg, imports, import_to_rva_map, newimgbuffer,
          global_relocs, curr_off, starting_off, d_func_rva, found, emitIdx,
          fixIdx, faults, outcome, pass, snap>>

-----------------------------------------------------------------------------
(* Bounds of the model *)

MaxFuncs == 2
ImgSize == 4352

(* Program constants *)

TEXT_RVA == 4096
FALLBACK_FOUND == 86801
NoneVal == -1

END_MARKER == <<204, 204, 204, 204, 102, 102, 15, 31, 132, 0, 0, 0, 0, 0>>

-----------------------------------------------------------------------------
(* Addresses of the inputs *)

FA == TEXT_RVA + 64
FB == TEXT_RVA + 128
FD == TEXT_RVA + 192
UNREC == TEXT_RVA + 240
DataRange == FD .. (FD + 15)
FuncAddrs == {FA, FB, FD}
Other(f) == IF f = FA THEN FB ELSE FA

RvaTable == [A |-> TEXT_RVA + 224, C |-> TEXT_RVA + 232]

-----------------------------------------------------------------------------
(* Bytes *)

Min(S) == CHOOSE x \in S : \A y \in S : x <= y

(* (v & 0xFFFFFFFF) as an unsigned 32-bit number, held as its four base-256
   digits, least significant first (\div rounds down and % is non-negative, so
   a negative v gives its two's complement).  struct.pack("<I", .) of such a
   number is these four digits as bytes. *)
Mask32(v) == << v % 256, (v \div 256) % 256, (v \div 65536) % 256,
                (v \div 16777216) % 256 >>

(* The signed 32-bit displacement four little-endian bytes encode, as the
   decoder reads it. *)
SDisp(b) == b[1] + 256 * b[2] + 65536 * b[3]
            + 16777216 * (IF b[4] >= 128 THEN b[4] - 256 ELSE b[4])

SetSlice(s, off, b) ==
    LET lo == IF off < Len(s) THEN off ELSE Len(s)
        hi == IF off + Len(b) < Len(s) THEN off + Len(b) ELSE Len(s)
    IN  SubSeq(s, 1, lo) \o b \o SubSeq(s, hi + 1, Len(s))

-----------------------------------------------------------------------------
(* The output image buffer: a bytearray of length len whose byte at a is
   w[a] when a was written, else 0 inside the zero-filled interval
   [zlo, zhi), else the template's byte. *)

Filler(a) == (a % 5) + 1

Template(a) ==
    IF marker_at # 0 /\ a >= marker_at /\ a < marker_at + Len(END_MARKER)
    THEN END_MARKER[a - marker_at + 1]
    ELSE IF a >= TEXT_RVA + 72 /\ a < TEXT_RVA + 76 THEN 204
    ELSE Filler(a)

FreshBuffer == [w |-> << >>, zlo |-> 0, zhi |-> 0, len |-> ImgSize]

BufAt(buf, a) ==
    IF a \in DOMAIN buf.w THEN buf.w[a]
    ELSE IF a >= buf.zlo /\ a < buf.zhi THEN 0
    ELSE Template(a)

(* buf[off:off+len(b)] = b, for a slice inside the buffer *)
BufWrite(buf, off, b) ==
    [buf EXCEPT !.w = [a \in (DOMAIN buf.w) \cup (off .. (off + Len(b) - 1)) |->
                          IF a >= off /\ a < off + Len(b) THEN b[a - off + 1]
                          ELSE buf.w[a]]]

BufSlice(buf, lo, n) == [i \in 1 .. n |-> BufAt(buf, lo + i - 1)]

(* buf[start:end] = bytearray(end - start) on the fresh template: the slice is
   clipped to the buffer, so an end past the buffer's length extends it *)
BufZeroFill(buf, start, end) ==
    [buf EXCEPT !.zlo = start, !.zhi = end,
                !.len = IF end > buf.len THEN end ELSE buf.len]

(* bytes.find(END_MARKER, start) on the template *)
MarkerMatchesAt(i) ==
    \A k \in 1 .. Len(END_MARKER) : Template(i + k - 1) = END_MARKER[k]

FindEndMarker(start) ==
    LET hits == {i \in start .. (ImgSize - Len(END_MARKER)) : MarkerMatchesAt(i)}
    IN  IF hits = {} THEN -1 ELSE Min(hits)

SelectiveEnd_NoMarker(fnd) == fnd

SelectiveEnd(fnd) == fnd + Len(END_MARKER)

-----------------------------------------------------------------------------
(* The decoder and the assembler collaborators, on the encodings in use:
     90             nop                      1
     E8 rel32       call                     5
     48 E8 rel32    call (REX.W prefix)      6
     E9 rel32       jmp                      5
     EB rel8        jmp short                2
     74 rel8        je short                 2
     0F 84 rel32    je near                  6
     FF 15 disp32   call qword [rip+disp]    6
     48 8D 05 disp  lea rax, [rip+disp]      7
     C7 05 disp imm mov dword [rip+disp],imm 10                            *)

EncodedSize(b) ==
    IF Len(b) = 0 THEN 0
    ELSE IF b[1] = 144 THEN 1
    ELSE IF b[1] = 232 THEN 5
    ELSE IF b[1] = 233 THEN 5
    ELSE IF b[1] = 235 THEN 2
    ELSE IF b[1] = 116 THEN 2
    ELSE IF Len(b) = 1 THEN 0
    ELSE IF b[1] = 15 /\ b[2] = 132 THEN 6
    ELSE IF b[1] = 255 /\ b[2] = 21 THEN 6
    ELSE IF b[1] = 72 /\ b[2] = 232 THEN 6
    ELSE IF b[1] = 72 /\ b[2] = 141 THEN 7
    ELSE IF b[1] = 199 /\ b[2] = 5 THEN 10
    ELSE 0

(* md.decode_buffer(bytes, ea).size; 0 when the bytes decode to nothing *)
DecodeSize(b) ==
    LET n == EncodedSize(b) IN IF n = 0 \/ n > Len(b) THEN 0 ELSE n

(* ks.asm(f'{mnemonic} {dest:#08x}', ea)[0] for a call *)
AsmCall(dest, ea) == <<232>> \o Mask32(dest - (ea + 5))

-----------------------------------------------------------------------------
(* RecoveredInstr: the instruction as decoded upstream (ea, bytes, mnemonic,
   operand metadata), its classification, and its mutable fields *)

MkInstr(ea, bytes, mnem, bnd, upd, imm, doff, ddest, lists, imp) ==
    [ ea |-> ea, bytes |-> bytes, mnemonic |-> mnem, is_boundary_jmp |-> bnd,
      updated_bytes |-> upd, op1_imm |-> imm, disp_offset |-> doff,
      disp_dest |-> ddest, lists |-> lists, imp |-> imp,
      is_obf_import |-> ("imports" \in lists),
      reloc_ea |-> NoneVal, reloc_instr_size |-> 0, emit_size |-> 0 ]

Nop(ea) == MkInstr(ea, <<144>>, "nop", FALSE, << >>, NoneVal, 0, NoneVal, {}, "")

Call(ea, t) ==
    MkInstr(ea, <<232>> \o Mask32(t - (ea + 5)), "call", FALSE, << >>, t, 0,
            NoneVal, {"ctrlflow"}, "")

RexCall(ea, t) ==
    MkInstr(ea, <<72, 232>> \o Mask32(t - (ea + 6)), "call", FALSE, << >>, t, 0,
            NoneVal, {"ctrlflow"}, "")

Jmp(ea, t) ==
    MkInstr(ea, <<235, (t - (ea + 2)) % 256>>, "jmp", FALSE,
            <<233, 144, 144, 144, 144>>, t, 0, NoneVal, {"ctrlflow"}, "")

Jcc(ea, t) ==
    MkInstr(ea, <<116, (t - (ea + 2)) % 256>>, "je", FALSE,
            <<15, 132, 144, 144, 144, 144>>, t, 0, NoneVal, {"ctrlflow"}, "")

(* a synthetic jump introduced by the normalization *)
BoundaryJmp(ea, t, lists) ==
    MkInstr(ea, <<233>> \o Mask32(t - (ea + 5)), "jmp", TRUE,
            <<233, 144, 144, 144, 144>>, t, 0, NoneVal, lists, "")

ImpCall(ea, imp) ==
    MkInstr(ea, <<255, 21>> \o Mask32(UNREC - (ea + 6)), "call", FALSE, << >>,
            NoneVal, 2, UNREC, {"imports", "ctrlflow"}, imp)

Lea(ea, dest) ==
    MkInstr(ea, <<72, 141, 5>> \o Mask32(dest - (ea + 7)), "lea", FALSE, << >>,
            NoneVal, 3, dest, {"dataflow"}, "")

MovImm(ea, dest) ==
    MkInstr(ea, <<199, 5>> \o Mask32(dest - (ea + 10)) \o <<1, 0, 0, 0>>, "mov",
            FALSE, << >>, NoneVal, 2, dest, {"dataflow"}, "")

is_call(r) == r.mnemonic = "call"
is_jmp(r) == r.mnemonic = "jmp"
is_jcc(r) == r.mnemonic = "je"

(* The normalized flows a function at f may have (g is the other function) *)
Flows(f) ==
    LET g == Other(f) IN
    { << Call(f, g), Nop(f + 5) >>,
      << BoundaryJmp(f, f, {"ctrlflow"}), Nop(f) >>,
      << RexCall(f, g), Nop(f + 6) >>,
      << Nop(f), Call(f + 1, UNREC) >>,
      << ImpCall(f, "A"), Lea(f + 6, FD + 4) >>,
      << ImpCall(f, "none"), ImpCall(f + 6, "A") >>,
      << ImpCall(f, "B"), Nop(f + 6) >>,
      << ImpCall(f, "Empty"), MovImm(f + 6, FD) >>,
      << Lea(f, g), Jcc(f + 7, f) >>,
      << Lea(f, UNREC) >>,
      << Jmp(f, f + 2), BoundaryJmp(f + 2, f, {"ctrlflow"}) >>,
      << Nop(f), BoundaryJmp(f + 1, f, {"imports", "ctrlflow"}) >> }

(* RecoveredFunc *)
MkFunc(f, flow) ==
    [ func_start_ea |-> f, normalized_flow |-> flow, reloc_ea |-> NoneVal ]

ListOf(rfn, name) ==
    LET RECURSIVE pick(_)
        pick(k) == IF k > Len(rfn.normalized_flow) THEN << >>
                   ELSE (IF name \in rfn.normalized_flow[k].lists THEN <<k>> ELSE << >>)
                        \o pick(k + 1)
    IN  pick(1)

(* d.cfg: one to MaxFuncs functions at distinct addresses, in any insertion
   order, each with one of its flows *)
RECURSIVE GraphsFrom(_, _)
GraphsFrom(used, n) ==
    IF n = 0 THEN { << >> }
    ELSE UNION { UNION { { <<MkFunc(f, fl)>> \o rest :
                             rest \in GraphsFrom(used \cup {f}, n - 1) } :
                         fl \in Flows(f) } :
                 f \in FuncAddrs \ used }

Graphs == UNION { GraphsFrom({}, n) : n \in 1 .. MaxFuncs }

(* d.imports of a graph: call-site address -> entry *)
ImportsOf(gr) ==
    LET sites == UNION { { <<i, k>> : k \in DOMAIN gr[i].normalized_flow } : i \in DOMAIN gr }
        known == { s \in sites : gr[s[1]].normalized_flow[s[2]].imp \in {"A", "B", "Empty"} }
        eas == { gr[s[1]].normalized_flow[s[2]].ea : s \in known }
        at(ea) == CHOOSE s \in known : gr[s[1]].normalized_flow[s[2]].ea = ea
    IN  [ ea \in eas |->
            LET r == gr[at(ea)[1]].normalized_flow[at(ea)[2]] IN
            IF r.imp = "Empty"
            THEN [kind |-> "Empty", api_name |-> "", new_rva |-> NoneVal]
            ELSE [kind |-> "entry", api_name |-> r.imp, new_rva |-> NoneVal] ]

(* d.imports_to_preserve: call site -> (api name, instruction size) *)
Site(ea, api) == [instr_ea |-> ea, api_name |-> api, instr_size |-> 6]

PreserveLists ==
    { << >>,
      << Site(TEXT_RVA + 208, "A") >>,
      << Site(TEXT_RVA + 208, "B"), Site(TEXT_RVA + 216, "C") >>,
      << Site(TEXT_RVA + 216, "C"), Site(TEXT_RVA + 208, "B") >> }

-----------------------------------------------------------------------------
(* dict.get, dict[key] = value *)

MapGet(m, k) == IF k \in DOMAIN m THEN m[k] ELSE NoneVal

MapPut(m, k, v) == [x \in (DOMAIN m) \cup {k} |-> IF x = k THEN v ELSE m[x]]

(* Python's "not x" for an address or None *)
Falsy(x) == x = NoneVal \/ x = 0

-----------------------------------------------------------------------------
(* The state on entry to rebuild_output.  A graph of one function is run
   with every template, selected address and preservation list; a graph of
   several functions with one template per mode, and with import
   preservation in FULL mode only. *)
Init ==
    /\ pc = "rebuild_output"
    /\ cfg \in Graphs
    /\ imports = ImportsOf(cfg)
    /\ protection_type \in {"HEADERLESS", "SELECTIVE", "FULL"}
    /\ selective_func_rva \in {-1, FA, FA + 4}
    /\ (selective_func_rva # -1) <=> (protection_type = "SELECTIVE")
    /\ marker_at \in {0, TEXT_RVA + 48, FA + 4, FA + 24}
    /\ preserve_flag \in BOOLEAN
    /\ imports_to_preserve \in PreserveLists
    /\ ~preserve_flag => imports_to_preserve = << >>
    /\ \/ Len(cfg) = 1
       \/ /\ (protection_type = "SELECTIVE" =>
                selective_func_rva = FA /\ marker_at = FA + 24)
          /\ (protection_type # "SELECTIVE" => marker_at = 0)
          /\ (preserve_flag => protection_type = "FULL")
          /\ Len(imports_to_preserve) # 1
          /\ (Len(imports_to_preserve) = 2 => imports_to_preserve[1].api_name = "B")
    /\ import_to_rva_map = << >>
    /\ newimgbuffer = [w |-> << >>, zlo |-> 0, zhi |-> 0, len |-> 0]
    /\ global_relocs = << >>
    /\ curr_off = 0
    /\ starting_off = 0
    /\ d_func_rva = NoneVal
    /\ found = NoneVal
    /\ emitIdx = 1
    /\ fixIdx = 1
    /\ faults = {}
    /\ outcome = ""
    /\ pass = 1
    /\ snap = << >>

-----------------------------------------------------------------------------
(* rebuild_output, up to its call of Relocation.build_relocations *)

LocalFuncRva == TEXT_RVA

RebuildOutput ==
    /\ pc = "rebuild_output"
    /\ Len(cfg) # 0
    /\ protection_type = "SELECTIVE" => selective_func_rva # -1
    /\ import_to_rva_map' = RvaTable
    /\ IF protection_type = "SELECTIVE"
       THEN LET start == selective_func_rva
                f0 == FindEndMarker(start)
                fnd == IF f0 = -1 THEN FALLBACK_FOUND ELSE f0
                end == SelectiveEnd(fnd)
            IN  /\ found' = f0
                /\ newimgbuffer' = BufZeroFill(FreshBuffer, start, end)
                /\ d_func_rva' = selective_func_rva
       ELSE /\ found' = found
            /\ newimgbuffer' = FreshBuffer
            /\ d_func_rva' = d_func_rva
    /\ starting_off' = LocalFuncRva
    /\ curr_off' = LocalFuncRva
    /\ pc' = "build_relocations"
    /\ UNCHANGED <<protection_type, selective_func_rva, marker_at, preserve_flag,
                   imports_to_preserve, cfg, imports, global_relocs, emitIdx,
                   fixIdx, faults, outcome, pass, snap>>

-----------------------------------------------------------------------------
(* build_relocations: the emitter loop, one function per step *)

align_to_16_byte_boundary_NoMask(value) == value + 15

align_to_16_byte_boundary_RoundDown(value) == (value \div 16) * 16

align_to_16_byte_boundary(value) == ((value + 15) \div 16) * 16

EmitInstr(st, func_ea, k) ==
    LET r == st.flow[k]
        ops == IF Len(r.updated_bytes) # 0 THEN r.updated_bytes ELSE r.bytes
        size == Len(ops)
    IN  [ flow |-> [st.flow EXCEPT ![k].reloc_ea = st.off, ![k].emit_size = size],
          relocs |-> MapPut(st.relocs, <<func_ea, r.ea, r.is_boundary_jmp>>, st.off),
          buf |-> BufWrite(st.buf, st.off, ops),
          off |-> st.off + size ]

RECURSIVE EmitLoop(_, _, _)
EmitLoop(st, func_ea, k) ==
    IF k > Len(st.flow) THEN st ELSE EmitLoop(EmitInstr(st, func_ea, k), func_ea, k + 1)

EmitFunc ==
    /\ pc = "build_relocations"
    /\ emitIdx <= Len(cfg)
    /\ LET rfn == cfg[emitIdx]
           func_ea == rfn.func_start_ea
           st0 == [ flow |-> rfn.normalized_flow,
                    relocs |-> MapPut(global_relocs, <<func_ea, func_ea, FALSE>>, curr_off),
                    buf |-> newimgbuffer,
                    off |-> curr_off ]
           st == EmitLoop(st0, func_ea, 1)
       IN  /\ cfg' = [cfg EXCEPT ![emitIdx].reloc_ea = curr_off,
                                 ![emitIdx].normalized_flow = st.flow]
           /\ global_relocs' = st.relocs
           /\ newimgbuffer' = st.buf
           /\ curr_off' = align_to_16_byte_boundary(st.off + 8)
    /\ emitIdx' = emitIdx + 1
    /\ UNCHANGED <<pc, protection_type, selective_func_rva, marker_at, preserve_flag,
                   imports_to_preserve, imports, import_to_rva_map, starting_off,
                   d_func_rva, found, fixIdx, faults, outcome, pass, snap>>

-----------------------------------------------------------------------------
(* apply_all_fixups_to_rfn.  The state threaded through its loops: the
   function's instructions, the buffer, d.imports, and whether an exception
   was raised (which ends the call). *)

PACK_FIXUP(fixup) == fixup

CALC_FIXUP(r, dest, size) == Mask32(dest - (r.reloc_ea + size))

IS_IN_DATA_Never(dest) == FALSE

IS_IN_DATA(dest) == dest \in DataRange

Raise(st) == [st EXCEPT !.fault = TRUE]

(* resolve_disp_fixup_and_apply; dest None makes CALC_FIXUP raise TypeError *)
resolve_disp_fixup_and_apply(st, k, dest) ==
    LET r == st.flow[k] IN
    IF dest = NoneVal THEN Raise(st)
    ELSE [st EXCEPT !.flow[k].updated_bytes =
            SetSlice(r.updated_bytes, r.disp_offset,
                     PACK_FIXUP(CALC_FIXUP(r, dest, Len(r.bytes))))]

JxxFixup_Incremental(r, reloc_dest) ==
    Mask32(SDisp(SubSeq(r.updated_bytes, Len(r.updated_bytes) - 3, Len(r.updated_bytes)))
           + (reloc_dest - (r.reloc_ea + Len(r.updated_bytes))))

JxxFixup(r, reloc_dest) == CALC_FIXUP(r, reloc_dest, Len(r.updated_bytes))

(* resolve_imm_fixup_and_apply; a failed assert raises *)
resolve_imm_fixup_and_apply(st, k, reloc_dest) ==
    LET r == st.flow[k] IN
    IF ~(is_call(r) \/ is_jcc(r) \/ is_jmp(r)) THEN Raise(st)
    ELSE IF is_call(r)
    THEN [st EXCEPT !.flow[k].updated_bytes = AsmCall(reloc_dest, r.reloc_ea)]
    ELSE IF is_jmp(r)
    THEN IF Len(r.updated_bytes) # 5 THEN Raise(st)
         ELSE [st EXCEPT !.flow[k].updated_bytes =
                 SetSlice(r.updated_bytes, 1, PACK_FIXUP(JxxFixup(r, reloc_dest)))]
    ELSE IF Len(r.updated_bytes) # 6 THEN Raise(st)
         ELSE [st EXCEPT !.flow[k].updated_bytes =
                 SetSlice(r.updated_bytes, 2, PACK_FIXUP(JxxFixup(r, reloc_dest)))]

(* update_reloc_in_img *)
update_reloc_in_img(st, k) ==
    LET r == st.flow[k]
        size == DecodeSize(r.updated_bytes)
    IN  IF size = 0 THEN Raise(st)
        ELSE IF Len(r.updated_bytes) # size
        THEN Raise([st EXCEPT !.flow[k].reloc_instr_size = size])
        ELSE [st EXCEPT !.flow[k].reloc_instr_size = size,
                        !.buf = BufWrite(st.buf, r.reloc_ea, r.updated_bytes)]

(* one iteration of "for r in rfn.relocs_imports" *)
ImportStep(st, k) ==
    LET r == st.flow[k] IN
    IF r.is_boundary_jmp THEN [st EXCEPT !.flow[k].is_obf_import = FALSE]
    ELSE
      LET st1 == [st EXCEPT !.flow[k].updated_bytes = r.bytes] IN
      IF r.ea \notin DOMAIN st.imports THEN st1
      ELSE IF st.imports[r.ea].kind = "Empty" THEN st1
      ELSE
        LET new_rva == MapGet(st.rva, st.imports[r.ea].api_name)
            st2 == [st1 EXCEPT !.imports[r.ea].new_rva = new_rva]
            st3 == resolve_disp_fixup_and_apply(st2, k, new_rva)
        IN  IF st3.fault THEN st3 ELSE update_reloc_in_img(st3, k)

(* one iteration of "for r in rfn.relocs_ctrlflow" *)
CtrlFlowStep(st, k) ==
    LET r == st.flow[k]
        dest == r.op1_imm
        reloc_dest == IF is_call(r)
                      THEN MapGet(st.relocs, <<dest, dest, FALSE>>)
                      ELSE MapGet(st.relocs, <<st.func_start_ea, dest, FALSE>>)
    IN  IF r.is_obf_import THEN st
        ELSE IF Falsy(reloc_dest) THEN Raise(st)
        ELSE LET st1 == resolve_imm_fixup_and_apply(st, k, reloc_dest)
             IN  IF st1.fault THEN st1 ELSE update_reloc_in_img(st1, k)

(* one iteration of "for r in rfn.relocs_dataflow" *)
DataFlowStep(st, k) ==
    LET r == st.flow[k]
        st1 == [st EXCEPT !.flow[k].updated_bytes = r.bytes]
        reloc_dest == IF IS_IN_DATA(r.disp_dest) THEN r.disp_dest
                      ELSE MapGet(st.relocs, <<r.disp_dest, r.disp_dest, FALSE>>)
    IN  IF Falsy(reloc_dest) /\ ~IS_IN_DATA(r.disp_dest) THEN Raise(st1)
        ELSE LET st2 == resolve_disp_fixup_and_apply(st1, k, reloc_dest)
             IN  IF st2.fault THEN st2 ELSE update_reloc_in_img(st2, k)

Step(st, list, k) ==
    IF list = "imports" THEN ImportStep(st, k)
    ELSE IF list = "ctrlflow" THEN CtrlFlowStep(st, k)
    ELSE DataFlowStep(st, k)

RECURSIVE RelocLoop(_, _, _, _)
RelocLoop(st, list, idxs, n) ==
    IF st.fault \/ n > Len(idxs) THEN st
    ELSE RelocLoop(Step(st, list, idxs[n]), list, idxs, n + 1)

apply_all_fixups_to_rfn(rfn, buf, imps, rva, relocs) ==
    LET st0 == [ flow |-> rfn.normalized_flow, buf |-> buf, imports |-> imps,
                 rva |-> rva, relocs |-> relocs,
                 func_start_ea |-> rfn.func_start_ea, fault |-> FALSE ]
        st1 == RelocLoop(st0, "imports", ListOf(rfn, "imports"), 1)
        st2 == RelocLoop(st1, "ctrlflow", ListOf(rfn, "ctrlflow"), 1)
    IN  RelocLoop(st2, "dataflow", ListOf(rfn, "dataflow"), 1)

(* build_relocations: the fixup loop, one function per step; an exception of
   apply_all_fixups_to_rfn is printed and the loop goes on *)
FixupsMayStart_PerFunction == emitIdx > fixIdx

FixupsMayStart == emitIdx > Len(cfg)

FixupFunc ==
    /\ pc = "build_relocations"
    /\ FixupsMayStart
    /\ fixIdx <= Len(cfg)
    /\ LET st == apply_all_fixups_to_rfn(cfg[fixIdx], newimgbuffer, imports,
                                         import_to_rva_map, global_relocs)
       IN  /\ cfg' = [cfg EXCEPT ![fixIdx].normalized_flow = st.flow]
           /\ newimgbuffer' = st.buf
           /\ imports' = st.imports
           /\ faults' = IF st.fault THEN faults \cup {fixIdx} ELSE faults
    /\ fixIdx' = fixIdx + 1
    /\ UNCHANGED <<pc, protection_type, selective_func_rva, marker_at, preserve_flag,
                   imports_to_preserve, import_to_rva_map, global_relocs, curr_off,
                   starting_off, d_func_rva, found, emitIdx, outcome, pass, snap>>

-----------------------------------------------------------------------------
(* preserve_original_imports: the whole pass; a missing RVA (None) makes the
   subtraction raise TypeError, which leaves the loop and build_relocations *)

PreserveStep(st, site) ==
    LET new_rva == MapGet(import_to_rva_map, site.api_name) IN
    IF new_rva = NoneVal THEN [st EXCEPT !.fault = TRUE]
    ELSE [st EXCEPT !.buf = BufWrite(st.buf, site.instr_ea + 2,
                        Mask32(new_rva - (site.instr_ea + site.instr_size)))]

RECURSIVE PreserveLoop(_, _)
PreserveLoop(st, n) ==
    IF st.fault \/ n > Len(imports_to_preserve) THEN st
    ELSE PreserveLoop(PreserveStep(st, imports_to_preserve[n]), n + 1)

FixupsOver == pc = "build_relocations" /\ FixupsMayStart /\ fixIdx > Len(cfg)

PreserveImports ==
    /\ FixupsOver
    /\ preserve_flag
    /\ LET st == PreserveLoop([buf |-> newimgbuffer, fault |-> FALSE], 1)
       IN  /\ newimgbuffer' = st.buf
           /\ outcome' = IF st.fault THEN "raised" ELSE "normal"
    /\ pc' = "done"
    /\ UNCHANGED <<protection_type, selective_func_rva, marker_at, preserve_flag,
                   imports_to_preserve, cfg, imports, import_to_rva_map,
                   global_relocs, curr_off, starting_off, d_func_rva, found,
                   emitIdx, fixIdx, faults, pass, snap>>

(* build_relocations and rebuild_output return *)
Return ==
    /\ FixupsOver
    /\ ~preserve_flag
    /\ pc' = "done"
    /\ outcome' = "normal"
    /\ UNCHANGED <<protection_type, selective_func_rva, marker_at, preserve_flag,
                   imports_to_preserve, cfg, imports, import_to_rva_map,
                   newimgbuffer, global_relocs, curr_off, starting_off, d_func_rva,
                   found, emitIdx, fixIdx, faults, pass, snap>>

Next == RebuildOutput \/ EmitFunc \/ FixupFunc \/ PreserveImports \/ Return

Spec == Init /\ [][Next]_vars

(* The fixup loop run a second time over every function, on the buffer, the
   Relocation Map and the import tables the first run left *)
RerunFixups ==
    /\ FixupsOver
    /\ pass = 1
    /\ pass' = 2
    /\ snap' = newimgbuffer
    /\ fixIdx' = 1
    /\ UNCHANGED <<pc, protection_type, selective_func_rva, marker_at, preserve_flag,
                   imports_to_preserve, cfg, imports, import_to_rva_map,
                   newimgbuffer, global_relocs, curr_off, starting_off, d_func_rva,
                   found, emitIdx, faults, outcome>>

NextTwice == Next \/ RerunFixups

SpecTwice == Init /\ [][NextTwice]_vars

-----------------------------------------------------------------------------
(* Properties *)

Instrs == UNION { { <<i, k>> : k \in DOMAIN cfg[i].normalized_flow } : i \in DOMAIN cfg }

InstrAt(s) == cfg[s[1]].normalized_flow[s[2]]

Emitted(i) ==
    /\ cfg[i].reloc_ea # NoneVal
    /\ <<cfg[i].func_start_ea, cfg[i].func_start_ea, FALSE>> \in DOMAIN global_relocs
    /\ \A k \in DOMAIN cfg[i].normalized_flow :
         LET r == cfg[i].normalized_flow[k] IN
         /\ r.reloc_ea # NoneVal
         /\ <<cfg[i].func_start_ea, r.ea, r.is_boundary_jmp>> \in DOMAIN global_relocs

AllEmitted == \A i \in DOMAIN cfg : Emitted(i)

(* C1: a fixup of a function (a step of the fixup loop) is only ever taken
   from a state in which the emitter has finished every function of the
   graph: every function-level and instruction-level key is in the
   Relocation Map and every instruction has its relocated address. *)
C1_EmitterBeforeFixups == [][fixIdx' # fixIdx /\ fixIdx' # 1 => AllEmitted]_vars

C1_Witness == fixIdx = 2 /\ Len(cfg) = 2 /\ AllEmitted /\ pass = 1

(* C2: every function the emitter has laid out has a relocated start
   (rfn.reloc_ea) that is a multiple of 16, in every protection mode. *)
C2_StartsAligned ==
    \A i \in DOMAIN cfg : cfg[i].reloc_ea # NoneVal => cfg[i].reloc_ea % 16 = 0

C2_Witness ==
    /\ emitIdx > Len(cfg)
    /\ Len(cfg) = 2
    /\ protection_type = "SELECTIVE"
    /\ cfg[2].reloc_ea > cfg[1].reloc_ea
    /\ (cfg[1].normalized_flow[Len(cfg[1].normalized_flow)].reloc_ea + 1) % 16 # 0

(* C3: once the emitter has finished, for every call whose immediate operand
   is the original start of a function T of the graph, the Relocation Map
   entry under (T, T, false) is T's relocated start. *)
C3_CallResolvesToStart ==
    emitIdx > Len(cfg) =>
      \A s \in Instrs : \A j \in DOMAIN cfg :
        (is_call(InstrAt(s)) /\ InstrAt(s).op1_imm = cfg[j].func_start_ea) =>
          MapGet(global_relocs, <<cfg[j].func_start_ea, cfg[j].func_start_ea, FALSE>>)
            = cfg[j].reloc_ea

(* The four displacement bytes of an instruction's patched encoding *)
DispField(r) == SubSeq(r.updated_bytes, r.disp_offset + 1, r.disp_offset + 4)

DataRefPatched(s) ==
    /\ s[1] < fixIdx
    /\ "dataflow" \in InstrAt(s).lists
    /\ InstrAt(s).disp_dest \in DataRange
    /\ InstrAt(s).reloc_instr_size # 0

(* C4: a patched data-flow instruction whose original destination D lies in
   the data region still references D from its relocated address: the
   displacement in its patched encoding, and in the buffer, is
   D - (relocated address + instruction length), whatever the Relocation Map
   holds. *)
C4_DataRefsKeepTarget ==
    \A s \in Instrs :
      DataRefPatched(s) =>
        LET r == InstrAt(s) IN
        /\ r.reloc_ea + Len(r.bytes) + SDisp(DispField(r)) = r.disp_dest
        /\ BufSlice(newimgbuffer, r.reloc_ea + r.disp_offset, 4) = DispField(r)

C4_Witness ==
    \E s \in Instrs :
      /\ DataRefPatched(s)
      /\ <<InstrAt(s).disp_dest, InstrAt(s).disp_dest, FALSE>> \in DOMAIN global_relocs
      /\ InstrAt(s).reloc_ea + Len(InstrAt(s).bytes) # InstrAt(s).ea + Len(InstrAt(s).bytes)

PatchWritten(r) == r.reloc_instr_size # 0 /\ r.reloc_instr_size = Len(r.updated_bytes)

(* C5: every instruction whose patch was written into the buffer has a
   patched encoding as long as the bytes the emitter wrote for it. *)
C5_PatchKeepsEmittedLength ==
    \A s \in Instrs : PatchWritten(InstrAt(s)) => Len(InstrAt(s).updated_bytes) = InstrAt(s).emit_size

(* Two buffers hold the same bytes: outside the bytes written, a byte is
   decided by the zero-filled interval and the template *)
SameBytes(b1, b2) ==
    /\ b1.len = b2.len
    /\ b1.zlo = b2.zlo
    /\ b1.zhi = b2.zhi
    /\ \A a \in (DOMAIN b1.w) \cup (DOMAIN b2.w) : BufAt(b1, a) = BufAt(b2, a)

SecondRunOver == pass = 2 /\ FixupsOver

(* C6: when the fixup loop has run a second time over every function, every
   byte of the buffer is what it was after the first run. *)
C6_SecondRunChangesNothing == SecondRunOver => SameBytes(newimgbuffer, snap)

C6_Witness ==
    /\ SecondRunOver
    /\ \E s \in Instrs : is_jcc(InstrAt(s)) /\ PatchWritten(InstrAt(s))
    /\ \E s \in Instrs : "dataflow" \in InstrAt(s).lists /\ PatchWritten(InstrAt(s))

MissingImportMetadata(r) ==
    /\ "imports" \in r.lists
    /\ ~r.is_boundary_jmp
    /\ \/ r.ea \notin DOMAIN imports
       \/ /\ imports[r.ea].kind = "entry"
          /\ imports[r.ea].api_name \notin DOMAIN import_to_rva_map

(* C7: once a function's fixups have run, if one of its import instructions
   has missing import metadata, the function's fixup raised a fault. *)
C7_MissingImportIsFault ==
    \A s \in Instrs :
      (s[1] < fixIdx /\ MissingImportMetadata(InstrAt(s))) => s[1] \in faults

(* C8: when the rewrite completes normally, no function's fixup raised a
   fault. *)
C8_NormalCompletionHasNoFault == outcome = "normal" => faults = {}

JustCleared ==
    /\ pc = "build_relocations"
    /\ emitIdx = 1
    /\ protection_type = "SELECTIVE"
    /\ found >= selective_func_rva

ClearedExactly(lo, hi) ==
    /\ newimgbuffer.len = ImgSize
    /\ \A a \in 0 .. (ImgSize - 1) :
         BufAt(newimgbuffer, a) = IF a >= lo /\ a <= hi THEN 0 ELSE Template(a)

(* C9 as amended: in SELECTIVE mode with the sentinel found, the clearing step
   zero-fills exactly the bytes from the selected function's start through
   the last byte of the sentinel and leaves every other byte of the template
   as it was. *)
C9_ClearsFromFunctionStart ==
    JustCleared =>
      ClearedExactly(selective_func_rva, found + Len(END_MARKER) - 1)

C9_Witness ==
    /\ JustCleared
    /\ found > selective_func_rva
    /\ BufAt(newimgbuffer, selective_func_rva) = 0
    /\ Template(selective_func_rva) # 0

(* C9 as stated: the clearing step zero-fills exactly the bytes from the
   function's end (where the sentinel begins) through the last byte of the
   sentinel, and leaves the function's own bytes unchanged. *)
C9_ClearsFromFunctionEnd ==
    JustCleared => ClearedExactly(found, found + Len(END_MARKER) - 1)

(* C10: the import-preservation pass is not aborted by a symbol without a
   new RVA, and when it has ended every call site whose symbol has a new RVA
   holds, at bytes [ea+2, ea+6), the displacement that reaches that RVA from
   the end of the instruction. *)
C10_PreservePatchesEveryResolvableSite ==
    (pc = "done" /\ preserve_flag) =>
      /\ outcome = "normal"
      /\ \A n \in DOMAIN imports_to_preserve :
           LET site == imports_to_preserve[n] IN
           site.api_name \in DOMAIN import_to_rva_map =>
             site.instr_ea + site.instr_size
               + SDisp(BufSlice(newimgbuffer, site.instr_ea + 2, 4))
               = import_to_rva_map[site.api_name]

(* Every write of the emitter, the fixups and the preservation pass lies
   inside the buffer *)
WritesInsideBuffer == \A a \in DOMAIN newimgbuffer.w : a >= 0 /\ a < newimgbuffer.len

(* A jump of function i (s = <<i, k>>) that the control-flow loop handles
   and whose target is the address of the synthetic boundary instruction
   at <<i, k2>> of the same function *)
JumpsToOwnBoundary(s, k2) ==
    LET r == InstrAt(s)
        b == cfg[s[1]].normalized_flow[k2]
    IN  /\ "ctrlflow" \in r.lists
        /\ is_jmp(r) \/ is_jcc(r)
        /\ ~r.is_obf_import
        /\ b.is_boundary_jmp
        /\ b.ea = r.op1_imm
        /\ \A k3 \in DOMAIN cfg[s[1]].normalized_flow :
             LET o == cfg[s[1]].normalized_flow[k3] IN
             o.ea = r.op1_imm => o.is_boundary_jmp

(* The relocated address a patched jump's encoding reaches *)
PatchedJumpTarget(r) ==
    r.reloc_ea + Len(r.updated_bytes)
      + SDisp(SubSeq(r.updated_bytes, Len(r.updated_bytes) - 3, Len(r.updated_bytes)))

(* C11: once a function's fixups have run, a jump of it whose target is a
   synthetic boundary instruction of the same function (emitted under a key
   with flag true) has raised no fault and is patched to reach that
   instruction's relocated address. *)
C11_JumpToBoundaryResolves ==
    \A s \in Instrs : \A k2 \in DOMAIN cfg[s[1]].normalized_flow :
      (s[1] < fixIdx /\ JumpsToOwnBoundary(s, k2)) =>
        /\ s[1] \notin faults
        /\ PatchWritten(InstrAt(s))
        /\ PatchedJumpTarget(InstrAt(s)) = cfg[s[1]].normalized_flow[k2].reloc_ea

(* C12: the starting offset build_relocations receives, and so the relocated
   start of the first function emitted, is d.selective_func_rva in SELECTIVE
   mode and 0x1000 in HEADERLESS and FULL modes. *)
C12_LayoutStartsAtSelectedFunction ==
    pc # "rebuild_output" =>
      LET want == IF protection_type = "SELECTIVE" THEN selective_func_rva
                  ELSE TEXT_RVA
      IN  /\ starting_off = want
          /\ cfg[1].reloc_ea # NoneVal => cfg[1].reloc_ea = want

BothEmitted(i, j) ==
    /\ i \in DOMAIN cfg /\ j \in DOMAIN cfg
    /\ cfg[i].reloc_ea # NoneVal /\ cfg[j].reloc_ea # NoneVal

(* C13 as amended: the emitter lays functions out in the iteration order of
   d.cfg: a function that comes earlier in d.cfg has the lower relocated
   start, past the earlier function's last emitted byte. *)
C13_LayoutFollowsIterationOrder ==
    \A i, j \in DOMAIN cfg :
      (BothEmitted(i, j) /\ i < j) =>
        /\ cfg[i].reloc_ea < cfg[j].reloc_ea
        /\ \A k \in DOMAIN cfg[i].normalized_flow :
             LET r == cfg[i].normalized_flow[k] IN
             r.reloc_ea + r.emit_size <= cfg[j].reloc_ea

C13_Witness ==
    /\ BothEmitted(1, 2)
    /\ cfg[1].func_start_ea > cfg[2].func_start_ea
    /\ cfg[1].reloc_ea < cfg[2].reloc_ea

(* C13 as stated: of two functions, the one with the lower original start
   address has the lower relocated start, whatever order d.cfg holds them
   in. *)
C13_LayoutAscendingByOriginalAddress ==
    \A i, j \in DOMAIN cfg :
      (BothEmitted(i, j) /\ cfg[i].func_start_ea < cfg[j].func_start_ea) =>
        cfg[i].reloc_ea < cfg[j].reloc_ea

=============================================================================
